---- MODULE Spec2Model ----
(***************************************************************************)
(* Model of mmpolicy: the policy serializer (src/src/write.rs) and the     *)
(* orchestrator Policy::run (src/src/run.rs).                              *)
(*                                                                         *)
(* Text is modelled by TLA+ strings built with \o exactly where the code   *)
(* formats; an output sink (a Vec<u8> or the policy file) is the sequence  *)
(* of lines that the writeln! calls delivered to it.  Option<T> is the     *)
(* empty sequence (None) or a one-element sequence (Some).  A path is the  *)
(* record of its root flag and its components, as std::path::Components    *)
(* yields them ("." and repeated separators are already normalised away,   *)
(* ".." is kept as the component "..").                                    *)
(***************************************************************************)
EXTENDS Integers, Sequences, FiniteSets, TLC

VARIABLES
    policy,            \* self: [name, rules]
    file_list_prefix,  \* Option<&Path>
    options,           \* &Options, read when the command line is built
    dirs,              \* file system: the set of existing directories
    sink,              \* lines held by the output sink (policy file or Vec)
    policy_file,       \* the File handle of run: "none" | "open" | "closed"
    mmapplypolicy,     \* the child: "none" | "running" | "exited" | "reaped"
    args,              \* argument vector handed to Command
    stdout,            \* child's stdout: "inherit" | "null" | "stderr"
    status,            \* ExitStatus collected by wait(): Option<code>
    result,            \* value returned to the caller
    pc,                \* position inside run / write
    caller,            \* "run": Policy::run was called, "write": Policy::write
    log,               \* history: the I/O steps attempted so far, with outcome
    \* two calls of run on one policy_path (SpecRace)
    runs,              \* per call: [policy, pc, offset, written, result]
    disk,              \* the bytes of the file at policy_path
    engine_read,       \* per call: what its engine read: "nothing" yet, the
                       \* "complete" serialization of a policy, or a "mixture"
    last_create,       \* history: the call that created/truncated last (0: none)
    disturbed,         \* history: the other call wrote since that create
    read_settled       \* history: per call, its engine read a settled file

race_vars == <<runs, disk, engine_read, last_create, disturbed, read_settled>>

vars == <<policy, file_list_prefix, options, dirs, sink, policy_file,
          mmapplypolicy, args, stdout, status, result, pc, caller, log,
          race_vars>>

-----------------------------------------------------------------------------
(* Bounds of the model *)

MaxRules == 2
MaxShow == 2
MaxRaceRules == 1

-----------------------------------------------------------------------------
(* Option<T> *)

None == <<>>
Some(v) == <<v>>
IsSome(o) == o /= <<>>
Unwrap(o) == o[1]

-----------------------------------------------------------------------------
(* Integer formatting, as `{}` of format! prints a uid_t / gid_t / i32 *)

Digit(d) == <<"0", "1", "2", "3", "4", "5", "6", "7", "8", "9">>[d + 1]

RECURSIVE Display(_)
Display(n) == IF n < 10 THEN Digit(n) ELSE Display(n \div 10) \o Digit(n % 10)

-----------------------------------------------------------------------------
(* types.rs: the document model *)

ShowAttrs == {"Mode", "Nlink", "FileSize", "KbAllocated"}

ExternalList(name, exec) ==
    [kind |-> "ExternalList", name |-> name, exec |-> exec,
     directories_plus |-> FALSE, show |-> <<>>, filter |-> None]

List(name, directories_plus, show, filter) ==
    [kind |-> "List", name |-> name, exec |-> "",
     directories_plus |-> directories_plus, show |-> show, filter |-> filter]

Group(id) == [by |-> "Group", id |-> id]
User(id) == [by |-> "User", id |-> id]

\* Rule(pub Option<Name>, pub RuleType)
Rule(label, ruletype) == [label |-> label, ruletype |-> ruletype]

\* Policy::new(name) followed by pushes onto policy.rules
Policy(name, rules) == [name |-> name, rules |-> rules]

-----------------------------------------------------------------------------
(* write.rs: the serializer.  Every operator returns the lines appended,   *)
(* one per writeln! call.                                                  *)

\* Show::as_str
as_str(s) ==
    CASE s = "Mode" -> "MODE"
      [] s = "Nlink" -> "NLINK"
      [] s = "FileSize" -> "FILE_SIZE"
      [] s = "KbAllocated" -> "KB_ALLOCATED"

\* show.iter().map(|s| format!("VARCHAR({})", s.as_str())).collect().join(sep)
RECURSIVE JoinShow(_, _)
JoinShow(show, i) ==
    IF i > Len(show) THEN ""
    ELSE (IF i = 1 THEN "" ELSE " || ' ' || ")
         \o "VARCHAR(" \o as_str(show[i]) \o ")"
         \o JoinShow(show, i + 1)

\* the DIRECTORIES_PLUS line of a List rule
DirectoriesPlusLines(directories_plus) ==
    IF directories_plus THEN <<"  DIRECTORIES_PLUS">> ELSE <<>>

\* mutant of ShowLines: the check for an empty `show` is missing
ShowLinesAlways(show) == <<"  SHOW(" \o JoinShow(show, 1) \o ")">>

\* the SHOW line of a List rule
ShowLines(show) ==
    IF show /= <<>> THEN <<"  SHOW(" \o JoinShow(show, 1) \o ")">> ELSE <<>>

\* the WHERE line of a List rule
WhereLines(filter) ==
    IF IsSome(filter)
    THEN LET f == Unwrap(filter)
             s == IF f.by = "Group"
                  THEN "GROUP_ID = " \o Display(f.id)
                  ELSE "USER_ID = " \o Display(f.id)
         IN  <<"  WHERE " \o s>>
    ELSE <<>>

\* RuleType::write
RuleTypeWrite(rt) ==
    IF rt.kind = "ExternalList"
    THEN <<"  EXTERNAL LIST '" \o rt.name \o "'", "  EXEC '" \o rt.exec \o "'">>
    ELSE <<"  LIST '" \o rt.name \o "'">>
         \o DirectoriesPlusLines(rt.directories_plus)
         \o ShowLines(rt.show)
         \o WhereLines(rt.filter)

\* Rule::write
RuleWrite(rule) ==
    (IF IsSome(rule.label)
     THEN <<"RULE '" \o Unwrap(rule.label) \o "'">>
     ELSE <<"RULE">>)
    \o RuleTypeWrite(rule.ruletype)

\* mutant of Separator: the `first` flag is ignored
SeparatorAlways(first) == <<"">>

\* the separator written before a rule: nothing before the first one
Separator(first) == IF first THEN <<>> ELSE <<"">>

\* Policy::write: the loop over self.rules with its `first` flag
RECURSIVE WriteLoop(_, _, _)
WriteLoop(rules, i, first) ==
    IF i > Len(rules) THEN <<>>
    ELSE Separator(first) \o RuleWrite(rules[i]) \o WriteLoop(rules, i + 1, FALSE)

PolicyWrite(p) == WriteLoop(p.rules, 1, TRUE)

-----------------------------------------------------------------------------
(* std::path, as far as run uses it *)

Path(root, comps) == [root |-> root, comps |-> comps]

\* Path::file_name: the final component, if it is a normal one
file_name(p) ==
    IF p.comps = <<>> \/ p.comps[Len(p.comps)] = ".."
    THEN None
    ELSE Some(p.comps[Len(p.comps)])

\* Path::join with a relative, single-component path
join(p, name) == Path(p.root, Append(p.comps, name))

\* Path::with_file_name: push when there is no file name, else pop then push
with_file_name(p, name) ==
    IF file_name(p) = None
    THEN Path(p.root, Append(p.comps, name))
    ELSE Path(p.root, Append(SubSeq(p.comps, 1, Len(p.comps) - 1), name))

\* the text of a path, as it is handed to Command::arg
RECURSIVE JoinComps(_, _)
JoinComps(comps, i) ==
    IF i > Len(comps) THEN ""
    ELSE (IF i = 1 THEN "" ELSE "/") \o comps[i] \o JoinComps(comps, i + 1)

PathDisplay(p) == (IF p.root THEN "/" ELSE "") \o JoinComps(p.comps, 1)

\* Path resolution by the operating system: every directory walked through
\* must exist; ".." steps to the parent.  Some(resolved) or None (ENOENT).
RECURSIVE Walk(_, _, _, _)
Walk(d, cur, comps, i) ==
    IF ~(cur = <<>> \/ cur \in d) THEN None
    ELSE IF i > Len(comps) THEN Some(cur)
    ELSE IF comps[i] = ".."
         THEN Walk(d, IF cur = <<>> THEN cur ELSE SubSeq(cur, 1, Len(cur) - 1),
                   comps, i + 1)
         ELSE IF i = Len(comps)
              THEN (IF Append(cur, comps[i]) \in d
                    THEN Some(Append(cur, comps[i])) ELSE None)
              ELSE Walk(d, Append(cur, comps[i]), comps, i + 1)

\* Path::is_dir under the file system d.  The only relative path among the
\* inputs is the empty one, which names nothing.
is_dir(d, p) == p.root /\ IsSome(Walk(d, <<>>, p.comps, 1))

-----------------------------------------------------------------------------
(* run.rs: values *)

Ok(reports) == [kind |-> "Ok", reports |-> reports, message |-> ""]
Err(kind, message) == [kind |-> kind, reports |-> <<>>, message |-> message]
Pending == [kind |-> "pending", reports |-> <<>>, message |-> ""]

\* Options { .. }, in the order of the struct's fields
Options(c, n, l, g, a, i) ==
    [choice_algorithm |-> c, nodes |-> n, local_work_dir |-> l,
     global_work_dir |-> g, action |-> a, information_level |-> i]

\* Options::default()
DefaultOptions == Options(None, None, None, None, None, None)

\* ExitStatus::success and ExitStatus::code; a status is Option<code>
success(st) == st = Some(0)
code(st) == st

-----------------------------------------------------------------------------
(* run.rs: the pure parts of Policy::run *)

\* mutant of InvalidPrefix: the negation of is_dir is lost
InvalidPrefixNegationLost(d, prefix) ==
    IsSome(prefix)
    /\ is_dir(d, Unwrap(prefix))
    /\ file_name(Unwrap(prefix)) = None

\* the validation of the prefix at the head of run
InvalidPrefix(d, prefix) ==
    IsSome(prefix)
    /\ ~is_dir(d, Unwrap(prefix))
    /\ file_name(Unwrap(prefix)) = None

\* `if let Some(v) = .. { cmd.arg(switch).arg(v); }`
Switch(switch, value) ==
    IF IsSome(value) THEN <<switch, Unwrap(value)>> ELSE <<>>

\* mutant of BuildArgs: -N is appended before -f
BuildArgsNodesFirst(target, policy_path, o, prefix) ==
    <<target, "-P", policy_path>>
    \o (IF IsSome(o.action) THEN <<"-I", Unwrap(o.action)>> ELSE <<>>)
    \o (IF IsSome(o.information_level)
        THEN <<"-L", Unwrap(o.information_level)>> ELSE <<>>)
    \o (IF IsSome(o.choice_algorithm)
        THEN <<"--choice-algorithm", Unwrap(o.choice_algorithm)>> ELSE <<>>)
    \o (IF IsSome(o.nodes) THEN <<"-N", Unwrap(o.nodes)>> ELSE <<>>)
    \o (IF IsSome(prefix) THEN <<"-f", PathDisplay(Unwrap(prefix))>> ELSE <<>>)
    \o (IF IsSome(o.local_work_dir)
        THEN <<"-s", Unwrap(o.local_work_dir)>> ELSE <<>>)
    \o (IF IsSome(o.global_work_dir)
        THEN <<"-g", Unwrap(o.global_work_dir)>> ELSE <<>>)

\* the arguments given to Command, in the order of the arg() calls
BuildArgs(target, policy_path, o, prefix) ==
    <<target, "-P", policy_path>>
    \o Switch("-I", o.action)
    \o Switch("-L", o.information_level)
    \o Switch("--choice-algorithm", o.choice_algorithm)
    \o Switch("-f", IF IsSome(prefix) THEN Some(PathDisplay(Unwrap(prefix)))
                    ELSE None)
    \o Switch("-N", o.nodes)
    \o Switch("-s", o.local_work_dir)
    \o Switch("-g", o.global_work_dir)

\* mutant of StdoutConfig: the level "0" is not told apart
StdoutConfigNoNull(o) ==
    IF IsSome(o.information_level) THEN "stderr" ELSE "inherit"

\* the stdout of the child: Command's default is to inherit
StdoutConfig(o) ==
    IF IsSome(o.information_level)
    THEN (IF Unwrap(o.information_level) = "0" THEN "null" ELSE "stderr")
    ELSE "inherit"

\* mutant of ReportPath: the directory case is missing
ReportPathAlwaysSibling(self, d, prefix, name) ==
    LET stem == IF file_name(prefix) = None
                THEN self.name
                ELSE Unwrap(file_name(prefix))
    IN  with_file_name(prefix, stem \o ".list." \o name)

\* the report path of one ExternalList rule named `name`
ReportPath(self, d, prefix, name) ==
    IF is_dir(d, prefix)
    THEN join(prefix, "list." \o name)
    ELSE LET stem == IF file_name(prefix) = None
                     THEN self.name
                     ELSE Unwrap(file_name(prefix))
         IN  with_file_name(prefix, stem \o ".list." \o name)

\* mutant of ReportOf: a List rule yields a path as well
ReportOfAnyRule(self, d, prefix, rule) ==
    IF IsSome(prefix)
    THEN Some(ReportPath(self, d, Unwrap(prefix), rule.ruletype.name))
    ELSE None

\* what filter_map's closure yields for one rule
ReportOf(self, d, prefix, rule) ==
    IF rule.ruletype.kind = "ExternalList"
    THEN (IF IsSome(prefix)
          THEN Some(ReportPath(self, d, Unwrap(prefix), rule.ruletype.name))
          ELSE None)
    ELSE None

\* self.rules.iter().filter_map(..).collect()
RECURSIVE ReportsLoop(_, _, _, _)
ReportsLoop(self, d, prefix, i) ==
    IF i > Len(self.rules) THEN <<>>
    ELSE ReportOf(self, d, prefix, self.rules[i])
         \o ReportsLoop(self, d, prefix, i + 1)

Reports(self, d, prefix) == ReportsLoop(self, d, prefix, 1)

\* mutant of FailedMessage: the exit code is left out
FailedMessageNoCode(st) == "'mmapplypolicy' failed"

\* the message of ApplyPolicyFailed (the message's backquotes are written as
\* apostrophes: a TLA+ string holds no backquote)
FailedMessage(st) ==
    "'mmapplypolicy' failed"
    \o (IF IsSome(code(st))
        THEN " with exit status " \o Display(Unwrap(code(st)))
        ELSE "")

-----------------------------------------------------------------------------
(* Inputs of the model *)

SeqsUpTo(S, n) == UNION {[1..k -> S] : k \in 0..n}

\* the arguments of the crate's example call of run
dev_or_dir == "/data/test"
policy_path == "/work/.policy/size.policy"

\* rules of the policies that are run: two ExternalList rules that differ in
\* name, and a List rule
RunRules ==
    {Rule(None, ExternalList("size", "")),
     Rule(None, ExternalList("report", "myscript")),
     Rule(Some("size"), List("size", TRUE, <<"KbAllocated">>, None))}

RunPolicies == {Policy("list", rs) : rs \in SeqsUpTo(RunRules, MaxRules)}

\* rules of the policies that are written: those above, and every List rule
\* over the attribute sequences of at most MaxShow attributes
Ids == {0, 1000}
Filters == {None} \cup {Some(Group(id)) : id \in Ids}
                  \cup {Some(User(id)) : id \in Ids}

ListRules ==
    {Rule(label, List("size", dp, show, filter)) :
        label \in {None, Some("size")}, dp \in BOOLEAN,
        show \in SeqsUpTo(ShowAttrs, MaxShow), filter \in Filters}

WriteRules ==
    RunRules \cup {Rule(None, List("report", FALSE, <<>>, Some(User(1000))))}

WritePolicies ==
    {Policy("list", rs) : rs \in SeqsUpTo(WriteRules, MaxRules)}
    \cup {Policy("list", <<r>>) : r \in ListRules}

\* report prefixes: none, /work/out, /work/out/prefix, /work/.. and the
\* empty path
Prefixes ==
    {None,
     Some(Path(TRUE, <<"work", "out">>)),
     Some(Path(TRUE, <<"work", "out", "prefix">>)),
     Some(Path(TRUE, <<"work", "..">>)),
     Some(Path(FALSE, <<>>))}

\* file systems: which of /work and /work/out exist as directories
DirStates == {{}, {<<"work">>}, {<<"work">>, <<"work", "out">>}}

OptionsPool ==
    {Options(c, n, l, g, a, i) :
        c \in {None, Some("fast")}, n \in {None, Some("filer1,filer2")},
        l \in {None, Some("/work/.policy/l")},
        g \in {None, Some("/work/.policy/g")},
        a \in {None, Some("defer")}, i \in {None, Some("0"), Some("1")}}

\* exit statuses: exit codes 0, 1 and 255, and death by signal (no code)
ExitStatuses == {Some(0), Some(1), Some(255), None}

-----------------------------------------------------------------------------
(* The state machine *)

\* no call of the race is under way
Procs == {1, 2}

RaceIdle ==
    /\ runs = [p \in Procs |-> [policy |-> Policy("list", <<>>), pc |-> "idle",
                                offset |-> 0, written |-> 0,
                                result |-> "pending"]]
    /\ disk = <<>>
    /\ engine_read = [p \in Procs |-> "nothing"]
    /\ last_create = 0
    /\ disturbed = FALSE
    /\ read_settled = [p \in Procs |-> FALSE]

Init ==
    /\ RaceIdle
    /\ caller = "run"
    /\ pc = "start"
    /\ policy \in RunPolicies
    /\ file_list_prefix \in Prefixes
    /\ options = DefaultOptions
    /\ dirs \in DirStates
    /\ sink \in {None, Some(<<"stale">>)}
    /\ policy_file = "none"
    /\ mmapplypolicy = "none"
    /\ args = <<>>
    /\ stdout = "inherit"
    /\ status = None
    /\ result = Pending
    /\ log = <<>>

\* a direct call of Policy::write on an empty Vec<u8>
InitWrite ==
    /\ RaceIdle
    /\ caller = "write"
    /\ pc = "write"
    /\ policy \in WritePolicies
    /\ file_list_prefix = None
    /\ options = DefaultOptions
    /\ dirs = {}
    /\ sink = Some(<<>>)
    /\ policy_file = "none"
    /\ mmapplypolicy = "none"
    /\ args = <<>>
    /\ stdout = "inherit"
    /\ status = None
    /\ result = Pending
    /\ log = <<>>

\* leaving the function with `res`: the locals are dropped.  Dropping the File
\* closes it; std's Child has no Drop, so the child is left as it is.
Return(res) ==
    /\ pc' = "done"
    /\ result' = res
    /\ policy_file' = IF policy_file = "open" THEN "closed" ELSE policy_file

\* run.rs 73-80: the check of the prefix
Validate ==
    /\ pc = "start"
    /\ IF InvalidPrefix(dirs, file_list_prefix)
       THEN Return(Err("InvalidFileListPrefix",
                "prefix needs to be either an existing directory or have a file name component in its path"))
       ELSE pc' = "create" /\ UNCHANGED <<result, policy_file>>
    /\ UNCHANGED <<race_vars, policy, file_list_prefix, options, dirs, sink,
                   mmapplypolicy, args, stdout, status, caller, log>>

\* run.rs 84-86: File::create creates or truncates the policy file, or fails
Create ==
    /\ pc = "create"
    /\ \/ /\ sink' = Some(<<>>)
          /\ policy_file' = "open"
          /\ pc' = "write"
          /\ log' = Append(log, <<"create", TRUE>>)
          /\ UNCHANGED result
       \/ /\ Return(Err("CreatePolicyFile",
                        "creating policy file '" \o policy_path \o "'"))
          /\ log' = Append(log, <<"create", FALSE>>)
          /\ UNCHANGED sink
    /\ UNCHANGED <<race_vars, policy, file_list_prefix, options, dirs, mmapplypolicy,
                   args, stdout, status, caller>>

\* mutant of WriteLine: run swallows the write error and goes on
WriteLineErrorSwallowed ==
    /\ pc = "write"
    /\ Len(Unwrap(sink)) < Len(PolicyWrite(policy))
    /\ \/ /\ sink' = Some(Append(Unwrap(sink),
                                 PolicyWrite(policy)[Len(Unwrap(sink)) + 1]))
          /\ UNCHANGED <<pc, result, policy_file, log>>
       \/ /\ pc' = "spawn"
          /\ log' = Append(log, <<"write", FALSE>>)
          /\ UNCHANGED <<sink, result, policy_file>>
    /\ UNCHANGED <<race_vars, policy, file_list_prefix, options, dirs, mmapplypolicy,
                   args, stdout, status, caller>>

\* write.rs: one writeln! of Policy::write reaches the sink, or the sink
\* fails and the error is propagated by `?` (run.rs 88-90 wraps it)
WriteLine ==
    /\ pc = "write"
    /\ Len(Unwrap(sink)) < Len(PolicyWrite(policy))
    /\ \/ /\ sink' = Some(Append(Unwrap(sink),
                                 PolicyWrite(policy)[Len(Unwrap(sink)) + 1]))
          /\ UNCHANGED <<pc, result, policy_file, log>>
       \/ /\ IF caller = "run"
             THEN Return(Err("WritePolicy",
                      "writing policy file to '" \o policy_path \o "'"))
             ELSE Return(Err("io::Error", ""))
          /\ log' = Append(log, <<"write", FALSE>>)
          /\ UNCHANGED sink
    /\ UNCHANGED <<race_vars, policy, file_list_prefix, options, dirs, mmapplypolicy,
                   args, stdout, status, caller>>

\* write.rs 24: Policy::write returns Ok(()) after the last rule
WriteReturn ==
    /\ pc = "write"
    /\ Len(Unwrap(sink)) = Len(PolicyWrite(policy))
    /\ IF caller = "run"
       THEN pc' = "spawn" /\ UNCHANGED <<result, policy_file>>
       ELSE Return(Ok(<<>>))
    /\ log' = Append(log, <<"write", TRUE>>)
    /\ UNCHANGED <<race_vars, policy, file_list_prefix, options, dirs, sink,
                   mmapplypolicy, args, stdout, status, caller>>

\* run.rs 92-137: the command is built from the options and spawned
Spawn ==
    /\ pc = "spawn"
    /\ \E o \in OptionsPool :
          /\ options' = o
          /\ args' = BuildArgs(dev_or_dir, policy_path, o, file_list_prefix)
          /\ stdout' = StdoutConfig(o)
    /\ \/ /\ mmapplypolicy' = "running"
          /\ pc' = "wait"
          /\ log' = Append(log, <<"spawn", TRUE>>)
          /\ UNCHANGED <<result, policy_file>>
       \/ /\ Return(Err("ApplyPolicy", "'mmapplypolicy' failed to start"))
          /\ log' = Append(log, <<"spawn", FALSE>>)
          /\ UNCHANGED mmapplypolicy
    /\ UNCHANGED <<race_vars, policy, file_list_prefix, dirs, sink, status, caller>>

\* the engine ends, with an exit code or by a signal
ChildExit ==
    /\ mmapplypolicy = "running"
    /\ \E st \in ExitStatuses : status' = st
    /\ mmapplypolicy' = "exited"
    /\ UNCHANGED <<race_vars, policy, file_list_prefix, options, dirs, sink, policy_file,
                   args, stdout, result, pc, caller, log>>

\* while the engine runs, directories are created or removed
EnvChange ==
    /\ pc = "wait"
    /\ mmapplypolicy = "running"
    /\ \E d \in DirStates \ {dirs} : dirs' = d
    /\ UNCHANGED <<race_vars, policy, file_list_prefix, options, sink, policy_file,
                   mmapplypolicy, args, stdout, status, result, pc, caller,
                   log>>

\* mutant of Wait: the exit status is taken without reaping the child
WaitNoReap ==
    /\ pc = "wait"
    /\ \/ /\ mmapplypolicy = "exited"
          /\ pc' = "finish"
          /\ log' = Append(log, <<"wait", TRUE>>)
          /\ UNCHANGED <<result, policy_file, mmapplypolicy>>
       \/ /\ Return(Err("ApplyPolicy", "failed waiting on 'mmapplypolicy'"))
          /\ log' = Append(log, <<"wait", FALSE>>)
          /\ UNCHANGED mmapplypolicy
    /\ UNCHANGED <<race_vars, policy, file_list_prefix, options, dirs, sink, args,
                   stdout, status, caller>>

\* run.rs 139-144: wait() reaps the child once it has ended, or fails
Wait ==
    /\ pc = "wait"
    /\ \/ /\ mmapplypolicy = "exited"
          /\ mmapplypolicy' = "reaped"
          /\ pc' = "finish"
          /\ log' = Append(log, <<"wait", TRUE>>)
          /\ UNCHANGED <<result, policy_file>>
       \/ /\ Return(Err("ApplyPolicy", "failed waiting on 'mmapplypolicy'"))
          /\ log' = Append(log, <<"wait", FALSE>>)
          /\ UNCHANGED mmapplypolicy
    /\ UNCHANGED <<race_vars, policy, file_list_prefix, options, dirs, sink, args,
                   stdout, status, caller>>

\* run.rs 146-184: the exit status decides between the reports and the error
Finish ==
    /\ pc = "finish"
    /\ IF success(status)
       THEN /\ Return(Ok(Reports(policy, dirs, file_list_prefix)))
            /\ log' = Append(log, <<"reports", TRUE>>)
       ELSE /\ Return(Err("ApplyPolicyFailed", FailedMessage(status)))
            /\ UNCHANGED log
    /\ UNCHANGED <<race_vars, policy, file_list_prefix, options, dirs, sink,
                   mmapplypolicy, args, stdout, status, caller>>

Next ==
    \/ Validate
    \/ Create
    \/ WriteLine
    \/ WriteReturn
    \/ Spawn
    \/ ChildExit
    \/ EnvChange
    \/ Wait
    \/ Finish

Spec == Init /\ [][Next]_vars

NextWrite == WriteLine \/ WriteReturn

SpecWrite == InitWrite /\ [][NextWrite]_vars

-----------------------------------------------------------------------------
(* Two calls of Policy::run on the same policy_path.  Each call has its own *)
(* File, opened by File::create (write-only, create, truncate) with its own *)
(* offset, starting at 0; a write puts its bytes at the offset of its       *)
(* handle and advances it.  A byte is named by the line it belongs to and   *)
(* its position in it (the last position being the newline), a byte never  *)
(* written by the hole.  One step is one writeln!; the calls of write(2)    *)
(* that one writeln! makes are not interleaved any further.                 *)

Hole == <<"", 0>>

\* the bytes that writeln!(output, "{line}") writes
LineBytes(line) == [k \in 1..(Len(line) + 1) |-> <<line, k>>]

RECURSIVE Bytes(_, _)
Bytes(lines, i) ==
    IF i > Len(lines) THEN <<>>
    ELSE LineBytes(lines[i]) \o Bytes(lines, i + 1)

\* the bytes Policy::write delivers for policy p
FileBytes(p) == Bytes(PolicyWrite(p), 1)

\* write(2) of `bytes` at offset `off`: the file grows as needed, a gap
\* between its end and the offset reads as holes
WriteAt(d, off, bytes) ==
    LET n == IF Len(d) > off + Len(bytes) THEN Len(d) ELSE off + Len(bytes)
    IN  [k \in 1..n |->
            IF k > off /\ k <= off + Len(bytes) THEN bytes[k - off]
            ELSE IF k <= Len(d) THEN d[k]
            ELSE Hole]

\* rules of the policies that race: an ExternalList rule and a List rule
RaceRules ==
    {Rule(None, ExternalList("size", "")),
     Rule(Some("size"), List("size", TRUE, <<"KbAllocated">>, None))}

RacePolicies == {Policy("list", rs) : rs \in SeqsUpTo(RaceRules, MaxRaceRules)}

\* both calls have been made and neither has opened the file yet; the two calls
\* are interchangeable, so of each pair of policies only the numbering in which
\* call 1 holds the one that is not shorter is started from
InitRace ==
    /\ caller = "race"
    /\ pc = "race"
    /\ policy = Policy("list", <<>>)
    /\ file_list_prefix = None
    /\ options = DefaultOptions
    /\ dirs = {}
    /\ sink = None
    /\ policy_file = "none"
    /\ mmapplypolicy = "none"
    /\ args = <<>>
    /\ stdout = "inherit"
    /\ status = None
    /\ result = Pending
    /\ log = <<>>
    /\ runs \in [Procs -> {[policy |-> pol, pc |-> "create", offset |-> 0,
                            written |-> 0, result |-> "pending"] :
                           pol \in RacePolicies}]
    /\ Len(FileBytes(runs[1].policy)) >= Len(FileBytes(runs[2].policy))
    /\ disk = <<>>
    /\ engine_read = [p \in Procs |-> "nothing"]
    /\ last_create = 0
    /\ disturbed = FALSE
    /\ read_settled = [p \in Procs |-> FALSE]

\* the call that truncated the file last has written its whole policy and the
\* other call has not written since
Settled ==
    /\ last_create \in Procs
    /\ ~disturbed
    /\ runs[last_create].pc \in {"write", "spawn", "running", "done"}
    /\ runs[last_create].written = Len(PolicyWrite(runs[last_create].policy))

\* mutant of RaceCreate: the file is opened without truncation
RaceCreateNoTruncate(p) ==
    /\ runs[p].pc = "create"
    /\ \/ /\ runs' = [runs EXCEPT ![p].pc = "write", ![p].offset = 0,
                                  ![p].written = 0]
          /\ last_create' = p
          /\ disturbed' = FALSE
          /\ UNCHANGED disk
       \/ /\ runs' = [runs EXCEPT ![p].pc = "done",
                                  ![p].result = "CreatePolicyFile"]
          /\ UNCHANGED <<disk, last_create, disturbed>>
    /\ UNCHANGED <<engine_read, read_settled>>
    /\ UNCHANGED <<policy, file_list_prefix, options, dirs, sink, policy_file,
                   mmapplypolicy, args, stdout, status, result, pc, caller,
                   log>>

\* run.rs 84-86: File::create truncates the file and gives a handle at
\* offset 0, or fails
RaceCreate(p) ==
    /\ runs[p].pc = "create"
    /\ \/ /\ disk' = <<>>
          /\ runs' = [runs EXCEPT ![p].pc = "write", ![p].offset = 0,
                                  ![p].written = 0]
          /\ last_create' = p
          /\ disturbed' = FALSE
       \/ /\ runs' = [runs EXCEPT ![p].pc = "done",
                                  ![p].result = "CreatePolicyFile"]
          /\ UNCHANGED <<disk, last_create, disturbed>>
    /\ UNCHANGED <<engine_read, read_settled>>
    /\ UNCHANGED <<policy, file_list_prefix, options, dirs, sink, policy_file,
                   mmapplypolicy, args, stdout, status, result, pc, caller,
                   log>>

\* write.rs: one writeln! of Policy::write puts its bytes at the offset of the
\* call's own handle, or fails (run.rs 88-90 returns WritePolicy)
RaceWriteLine(p) ==
    /\ runs[p].pc = "write"
    /\ runs[p].written < Len(PolicyWrite(runs[p].policy))
    /\ \/ LET bytes ==
                LineBytes(PolicyWrite(runs[p].policy)[runs[p].written + 1])
          IN  /\ disk' = WriteAt(disk, runs[p].offset, bytes)
              /\ runs' = [runs EXCEPT
                            ![p].offset = runs[p].offset + Len(bytes),
                            ![p].written = runs[p].written + 1]
              /\ disturbed' = (disturbed \/ last_create /= p)
       \/ /\ runs' = [runs EXCEPT ![p].pc = "done",
                                  ![p].result = "WritePolicy"]
          /\ UNCHANGED <<disk, disturbed>>
    /\ UNCHANGED <<engine_read, last_create, read_settled>>
    /\ UNCHANGED <<policy, file_list_prefix, options, dirs, sink, policy_file,
                   mmapplypolicy, args, stdout, status, result, pc, caller,
                   log>>

\* write.rs 24: Policy::write returns Ok(()) after the last rule
RaceWriteReturn(p) ==
    /\ runs[p].pc = "write"
    /\ runs[p].written = Len(PolicyWrite(runs[p].policy))
    /\ runs' = [runs EXCEPT ![p].pc = "spawn"]
    /\ UNCHANGED <<disk, engine_read, last_create, disturbed, read_settled>>
    /\ UNCHANGED <<policy, file_list_prefix, options, dirs, sink, policy_file,
                   mmapplypolicy, args, stdout, status, result, pc, caller,
                   log>>

\* run.rs 92-137: the engine is spawned on policy_path, or fails to start
RaceSpawn(p) ==
    /\ runs[p].pc = "spawn"
    /\ \/ runs' = [runs EXCEPT ![p].pc = "running"]
       \/ runs' = [runs EXCEPT ![p].pc = "done", ![p].result = "ApplyPolicy"]
    /\ UNCHANGED <<disk, engine_read, last_create, disturbed, read_settled>>
    /\ UNCHANGED <<policy, file_list_prefix, options, dirs, sink, policy_file,
                   mmapplypolicy, args, stdout, status, result, pc, caller,
                   log>>

\* the complete serializations of the two calls' policies
Serializations == {FileBytes(runs[p].policy) : p \in Procs}

\* the engine of call p reads the file named by -P; of the bytes it reads the
\* model keeps whether they are the serialization of one of the policies
EngineRead(p) ==
    /\ runs[p].pc = "running"
    /\ engine_read[p] = "nothing"
    /\ engine_read' = [engine_read EXCEPT
                         ![p] = IF disk \in Serializations
                                THEN "complete" ELSE "mixture"]
    /\ read_settled' = [read_settled EXCEPT ![p] = Settled]
    /\ UNCHANGED <<runs, disk, last_create, disturbed>>
    /\ UNCHANGED <<policy, file_list_prefix, options, dirs, sink, policy_file,
                   mmapplypolicy, args, stdout, status, result, pc, caller,
                   log>>

\* run.rs 139-185: the engine has ended, wait() returns and run returns
RaceWait(p) ==
    /\ runs[p].pc = "running"
    /\ engine_read[p] /= "nothing"
    /\ runs' = [runs EXCEPT ![p].pc = "done", ![p].result = "returned"]
    /\ UNCHANGED <<disk, engine_read, last_create, disturbed, read_settled>>
    /\ UNCHANGED <<policy, file_list_prefix, options, dirs, sink, policy_file,
                   mmapplypolicy, args, stdout, status, result, pc, caller,
                   log>>

NextRace ==
    \E p \in Procs :
        \/ RaceCreate(p)
        \/ RaceWriteLine(p)
        \/ RaceWriteReturn(p)
        \/ RaceSpawn(p)
        \/ EngineRead(p)
        \/ RaceWait(p)

SpecRace == InitRace /\ [][NextRace]_vars

-----------------------------------------------------------------------------
(* Properties of Policy::run, checked under Spec *)

\* the command line has been built and a spawn attempted
SpawnAttempted == Len(log) >= 3

\* the names of the policy's ExternalList rules, in rule order
IsExternalList(rule) == rule.ruletype.kind = "ExternalList"
ExternalListNames ==
    LET els == SelectSeq(policy.rules, IsExternalList)
    IN  [k \in 1..Len(els) |-> els[k].ruletype.name]

\* C1: a call of run whose report prefix is supplied, is not an existing
\* directory and has no file name returns InvalidFileListPrefix in its first
\* step, and that step neither creates nor truncates the policy file, opens
\* no handle, spawns no process and attempts no I/O step.
C1_InvalidPrefixBeforeIO ==
    [][(/\ pc = "start"
        /\ IsSome(file_list_prefix)
        /\ ~is_dir(dirs, Unwrap(file_list_prefix))
        /\ file_name(Unwrap(file_list_prefix)) = None)
       => (/\ pc' = "done"
           /\ result'.kind = "InvalidFileListPrefix"
           /\ sink' = sink
           /\ policy_file' = "none"
           /\ mmapplypolicy' = "none"
           /\ log' = <<>>)]_vars

C1_Witness ==
    /\ pc = "done"
    /\ result.kind = "InvalidFileListPrefix"
    /\ file_list_prefix = Some(Path(TRUE, <<"work", "..">>))
    /\ sink = Some(<<"stale">>)
    /\ log = <<>>

\* C2: the I/O steps of run are attempted in the order create, write, spawn,
\* wait, reports, each at most once; a failed step is the last one attempted
\* and run has then returned the error of that step (CreatePolicyFile,
\* WritePolicy, ApplyPolicy, ApplyPolicy); the engine is spawned only after
\* the file was created and the whole policy written to it.
StepOrder == <<"create", "write", "spawn", "wait", "reports">>
StepError == <<"CreatePolicyFile", "WritePolicy", "ApplyPolicy", "ApplyPolicy">>

C2_StepsInOrderStopAtFirstFailure ==
    /\ Len(log) <= Len(StepOrder)
    /\ \A i \in 1..Len(log) : log[i][1] = StepOrder[i]
    /\ \A i \in 1..(Len(log) - 1) : log[i][2]
    /\ (log /= <<>> /\ ~log[Len(log)][2])
         => pc = "done" /\ result.kind = StepError[Len(log)]
    /\ result.kind \in {"CreatePolicyFile", "WritePolicy", "ApplyPolicy"}
         => log /= <<>> /\ ~log[Len(log)][2]
            /\ StepError[Len(log)] = result.kind
    /\ (SpawnAttempted \/ mmapplypolicy /= "none")
         => /\ log[1] = <<"create", TRUE>>
            /\ log[2] = <<"write", TRUE>>
            /\ sink = Some(PolicyWrite(policy))

C2_Witness ==
    /\ pc = "done"
    /\ result.kind = "WritePolicy"
    /\ Len(policy.rules) = 2
    /\ Len(Unwrap(sink)) = 3
    /\ mmapplypolicy = "none"
    /\ log = << <<"create", TRUE>>, <<"write", FALSE>> >>

\* C3: the argument vector is the target, -P and the policy path, followed
\* by the switch/value pairs -I, -L, --choice-algorithm, -f, -N, -s, -g in this
\* order, a pair being there if and only if its value is present; -f is there
\* if and only if a report prefix was supplied.
SwitchTable ==
    << <<"-I", options.action>>,
       <<"-L", options.information_level>>,
       <<"--choice-algorithm", options.choice_algorithm>>,
       <<"-f", IF file_list_prefix = None THEN None
               ELSE Some(PathDisplay(Unwrap(file_list_prefix)))>>,
       <<"-N", options.nodes>>,
       <<"-s", options.local_work_dir>>,
       <<"-g", options.global_work_dir>> >>

ValuePresent(entry) == entry[2] /= None

C3_ArgumentVector ==
    SpawnAttempted =>
        LET present == SelectSeq(SwitchTable, ValuePresent)
        IN  /\ Len(args) = 3 + 2 * Len(present)
            /\ args[1] = dev_or_dir
            /\ args[2] = "-P"
            /\ args[3] = policy_path
            /\ \A k \in 1..Len(present) :
                  /\ args[2 + 2 * k] = present[k][1]
                  /\ args[3 + 2 * k] = present[k][2][1]

C3_Witness ==
    /\ SpawnAttempted
    /\ args = <<"/data/test", "-P", "/work/.policy/size.policy",
                "-I", "defer", "-L", "0", "--choice-algorithm", "fast",
                "-f", "/work/out/prefix", "-N", "filer1,filer2",
                "-s", "/work/.policy/l", "-g", "/work/.policy/g">>

\* C4 (as claimed): the child's stdout is discarded exactly when
\* information_level is "0", and in every other case, also when
\* information_level is not set, it is forwarded to the error stream.
C4_StdoutForwardedUnlessZero ==
    SpawnAttempted =>
        /\ stdout = "null" <=> options.information_level = Some("0")
        /\ options.information_level /= Some("0") => stdout = "stderr"

\* C4 (amended): the child's stdout is discarded exactly when
\* information_level is "0", forwarded to the error stream exactly when
\* information_level is set to another value, and left at Command's default
\* (inherited from the parent's stdout) exactly when it is not set.
C4_StdoutByInformationLevel ==
    SpawnAttempted =>
        /\ stdout = "null" <=> options.information_level = Some("0")
        /\ stdout = "stderr" <=> /\ options.information_level /= None
                                 /\ options.information_level /= Some("0")
        /\ stdout = "inherit" <=> options.information_level = None

C4_Witness ==
    /\ mmapplypolicy = "running"
    /\ options.information_level = None
    /\ stdout = "inherit"

C6_OnePathPerExternalList ==
    (pc = "done" /\ result.kind = "Ok") =>
        IF IsSome(file_list_prefix)
        THEN /\ Len(result.reports) = Len(ExternalListNames)
             /\ \A k \in 1..Len(result.reports) :
                   LET comps == result.reports[k].comps
                       stem == IF is_dir(dirs, Unwrap(file_list_prefix))
                               THEN ""
                               ELSE IF IsSome(file_name(Unwrap(file_list_prefix)))
                               THEN Unwrap(file_name(Unwrap(file_list_prefix)))
                                    \o "."
                               ELSE policy.name \o "."
                   IN  comps[Len(comps)] =
                           stem \o "list." \o ExternalListNames[k]
        ELSE result.reports = <<>>

C6_Witness ==
    /\ pc = "done"
    /\ result.kind = "Ok"
    /\ IsSome(file_list_prefix)
    /\ Len(policy.rules) = 2
    /\ policy.rules[1].ruletype.kind = "List"
    /\ policy.rules[2].ruletype.kind = "ExternalList"
    /\ Len(result.reports) = 1

\* C7: when wait() has delivered an exit status that is not a success, run
\* returns ApplyPolicyFailed and no report path; the message ends in the exit
\* code when there is one and names none when there is none; report paths
\* are returned only after a successful exit, and never when the engine has
\* ended unsuccessfully.
C7_UnsuccessfulExit ==
    /\ (pc = "done" /\ mmapplypolicy = "reaped" /\ ~success(status)) =>
          /\ result.kind = "ApplyPolicyFailed"
          /\ result.reports = <<>>
          /\ status = Some(1) =>
                result.message = "'mmapplypolicy' failed with exit status 1"
          /\ status = Some(255) =>
                result.message = "'mmapplypolicy' failed with exit status 255"
          /\ status = None => result.message = "'mmapplypolicy' failed"
    /\ (pc = "done" /\ result.kind = "Ok") =>
          mmapplypolicy = "reaped" /\ status = Some(0)
    /\ (pc = "done" /\ mmapplypolicy \in {"exited", "reaped"}
        /\ ~success(status)) =>
          result.kind /= "Ok" /\ result.reports = <<>>

C7_Witness ==
    /\ pc = "done"
    /\ mmapplypolicy = "reaped"
    /\ status = Some(255)
    /\ result.kind = "ApplyPolicyFailed"
    /\ result.message = "'mmapplypolicy' failed with exit status 255"

\* C8 (as claimed): when run has returned, on whatever path, the policy file
\* handle it opened is closed and the child it spawned has been reaped.
C8_HandlesReleasedOnEveryPath ==
    pc = "done" =>
        /\ policy_file /= "open"
        /\ mmapplypolicy \in {"none", "reaped"}

\* C8 (amended): when run has returned, on whatever path, the policy file
\* handle it opened is closed; the child it spawned has been reaped on every
\* path but the one of a failed wait, where run returns ApplyPolicy and leaves
\* the child unreaped.
C8_HandlesReleasedButFailedWait ==
    pc = "done" =>
        /\ policy_file /= "open"
        /\ (mmapplypolicy \in {"none", "reaped"}
            \/ (result.kind = "ApplyPolicy"
                /\ result.message = "failed waiting on 'mmapplypolicy'"))
        /\ result.kind \in {"Ok", "ApplyPolicyFailed"}
              => mmapplypolicy = "reaped" /\ policy_file = "closed"

C8_Witness ==
    /\ pc = "done"
    /\ result.message = "failed waiting on 'mmapplypolicy'"
    /\ policy_file = "closed"
    /\ mmapplypolicy = "running"

-----------------------------------------------------------------------------
(* Properties of Policy::write, checked under SpecWrite *)

\* the output cut at its blank lines
RECURSIVE SplitBlocks(_, _, _)
SplitBlocks(out, i, cur) ==
    IF i > Len(out) THEN <<cur>>
    ELSE IF out[i] = ""
         THEN <<cur>> \o SplitBlocks(out, i + 1, <<>>)
         ELSE SplitBlocks(out, i + 1, Append(cur, out[i]))

Blocks(out) == SplitBlocks(out, 1, <<>>)

WriteCompleted == pc = "done" /\ result.kind = "Ok" /\ caller = "write"

\* C9: a completed write of a policy without rules leaves the output empty;
\* of N >= 1 rules it leaves N - 1 blank lines, none first and none last, that
\* cut the output into the N rule blocks, which are the rules' blocks in the
\* stored order; the crate's example renders as its documentation says.
C9_BlankLineSeparators ==
    WriteCompleted =>
        LET out == Unwrap(sink)
            N == Len(policy.rules)
        IN  /\ N = 0 => out = <<>>
            /\ N >= 1 =>
                  /\ Cardinality({i \in 1..Len(out) : out[i] = ""}) = N - 1
                  /\ out[1] /= ""
                  /\ out[Len(out)] /= ""
                  /\ Len(Blocks(out)) = N
                  /\ \A k \in 1..N :
                        Blocks(out)[k] = RuleWrite(policy.rules[k])
            /\ policy.rules =
                  << Rule(None, ExternalList("size", "")),
                     Rule(Some("size"),
                          List("size", TRUE, <<"KbAllocated">>, None)) >>
                  => out = <<"RULE",
                             "  EXTERNAL LIST 'size'",
                             "  EXEC ''",
                             "",
                             "RULE 'size'",
                             "  LIST 'size'",
                             "  DIRECTORIES_PLUS",
                             "  SHOW(VARCHAR(KB_ALLOCATED))">>

C9_Witness ==
    /\ WriteCompleted
    /\ Len(policy.rules) = 2
    /\ Len(Unwrap(sink)) = 7
    /\ Unwrap(sink)[4] = ""
    /\ Cardinality({i \in 1..Len(Unwrap(sink)) : Unwrap(sink)[i] = ""}) = 1

\* C10: in a completed write, the body of every List rule is the LIST line,
\* then DIRECTORIES_PLUS iff the flag is set, then one SHOW line iff show is
\* not empty, with VARCHAR(keyword) per attribute in input order joined by
\* " || ' ' || ", then a WHERE line iff a filter is present, GROUP_ID = n for
\* a group and USER_ID = n for a user; and nothing else.
Keyword ==
    [a \in ShowAttrs |->
        CASE a = "Mode" -> "MODE"
          [] a = "Nlink" -> "NLINK"
          [] a = "FileSize" -> "FILE_SIZE"
          [] a = "KbAllocated" -> "KB_ALLOCATED"]

IdText == [id \in Ids |-> IF id = 0 THEN "0" ELSE "1000"]

RECURSIVE ExpectedShow(_)
ExpectedShow(show) ==
    IF Len(show) = 1
    THEN "VARCHAR(" \o Keyword[show[1]] \o ")"
    ELSE ExpectedShow(SubSeq(show, 1, Len(show) - 1))
         \o " || ' ' || " \o "VARCHAR(" \o Keyword[show[Len(show)]] \o ")"

ExpectedListBody(rt) ==
    <<"  LIST '" \o rt.name \o "'">>
    \o (IF rt.directories_plus THEN <<"  DIRECTORIES_PLUS">> ELSE <<>>)
    \o (IF Len(rt.show) > 0
        THEN <<"  SHOW(" \o ExpectedShow(rt.show) \o ")">> ELSE <<>>)
    \o (IF rt.filter = None THEN <<>>
        ELSE IF rt.filter[1].by = "Group"
        THEN <<"  WHERE GROUP_ID = " \o IdText[rt.filter[1].id]>>
        ELSE <<"  WHERE USER_ID = " \o IdText[rt.filter[1].id]>>)

C10_ListRuleBody ==
    WriteCompleted =>
        LET blocks == Blocks(Unwrap(sink))
        IN  \A k \in 1..Len(policy.rules) :
               policy.rules[k].ruletype.kind = "List" =>
                  /\ k <= Len(blocks)
                  /\ Tail(blocks[k]) = ExpectedListBody(policy.rules[k].ruletype)

C10_Witness ==
    /\ WriteCompleted
    /\ policy.rules =
          << Rule(None, List("size", TRUE, <<"Mode", "Nlink">>,
                             Some(Group(1000)))) >>
    /\ sink = Some(<<"RULE",
                     "  LIST 'size'",
                     "  DIRECTORIES_PLUS",
                     "  SHOW(VARCHAR(MODE) || ' ' || VARCHAR(NLINK))",
                     "  WHERE GROUP_ID = 1000">>)

-----------------------------------------------------------------------------
(* Properties of two concurrent calls of run, checked under SpecRace *)

\* call p has written its whole policy
WroteAll(p) ==
    /\ runs[p].pc \in {"spawn", "running", "done"}
    /\ runs[p].written = Len(PolicyWrite(runs[p].policy))

\* C11 (as claimed): under every interleaving, once both calls have written
\* their policies the file holds the complete serialization of one of the two
\* policies, and what an engine reads is the complete serialization of one of
\* the two policies.
C11_NeverAMixture ==
    /\ (\A p \in Procs : WroteAll(p)) => disk \in Serializations
    /\ \A p \in Procs : engine_read[p] /= "mixture"

\* C11 (amended): whenever the call that created/truncated the file last has
\* written its whole policy and the other call has not written since that
\* truncation, the file holds the complete serialization of that call's
\* policy; and an engine that reads the file at such a moment reads the
\* complete serialization of one of the two policies.
C11_LastCreatorWinsWhenUndisturbed ==
    /\ Settled => disk = FileBytes(runs[last_create].policy)
    /\ \A p \in Procs : read_settled[p] => engine_read[p] = "complete"

C11_Witness ==
    /\ \A p \in Procs : WroteAll(p)
    /\ Settled
    /\ last_create = 2
    /\ Len(FileBytes(runs[2].policy)) < Len(FileBytes(runs[1].policy))
    /\ Len(runs[2].policy.rules) = 1
    /\ disk = FileBytes(runs[2].policy)
    /\ engine_read[1] /= "nothing" /\ ~read_settled[1]
    /\ engine_read[2] = "complete" /\ read_settled[2]

====
